---- MODULE Spec2Model ----
(***************************************************************************)
(* A model of the SSZ codec of package ssz: the type classifier            *)
(* (isFixedType, getTypeSize), the encoder and decoder dispatch with their *)
(* caches, the encoders (encode.go), the decoders and the section Stream   *)
(* (decode.go), and the two sync.Pools that recycle encodeStates and       *)
(* Streams between calls.                                                  *)
(*                                                                         *)
(* Representation.  A byte is a number in 0..255 and a byte string is a    *)
(* sequence of bytes.  A value of uintN is a base-256 numeral of N/8       *)
(* digits, most significant digit first, so that little-endian encoding    *)
(* and the integer conversions of the code (byte(x), int8(x), uint64(x),   *)
(* SetUint's truncation) are operations on digits and every width up to 64 *)
(* bits is exact.  A slice, array or struct value is the sequence of its   *)
(* children; a pointer is <<>> (nil) or <<v>>; a big.Int is a record of    *)
(* its sign and its minimal big-endian magnitude.  A Go panic is the       *)
(* error value Panic, which every caller propagates.                       *)
(***************************************************************************)
EXTENDS Integers, Sequences, FiniteSets, TLC

(***************************************************************************)
(* Type descriptors (reflect.Type).                                        *)
(***************************************************************************)
TBool == [k |-> "bool"]

TUint(w) == [k |-> "uint", w |-> w]

TInt8 == [k |-> "int8"]

TInt16 == [k |-> "int16"]

TInt32 == [k |-> "int32"]

TInt64 == [k |-> "int64"]

TBigInt == [k |-> "bigint"]

TPtr(t) == [k |-> "ptr", elem |-> t]

TSlice(t) == [k |-> "slice", elem |-> t]

TArray(n, t) == [k |-> "array", n |-> n, elem |-> t]

\* fs: a sequence of fields [typ |-> type, exported |-> BOOLEAN]
TStruct(fs) == [k |-> "struct", fields |-> fs]

Exp(t) == [typ |-> t, exported |-> TRUE]

Unexp(t) == [typ |-> t, exported |-> FALSE]

TByte == TUint(1)

(***************************************************************************)
(* Errors.                                                                 *)
(***************************************************************************)
Nil == "nil"

Panic == "panic"

EOF == "EOF"

ErrUnexpectedEOF == "unexpected EOF"

ErrReader == "read error"

\* Not an error value of the code: the call never returns (a loop that makes
\* no progress and grows its slice until memory is exhausted).
Diverges == "never returns"

\* reflect.Kind.String(); big.Int is a struct.
KindName(t) == IF t.k = "bigint" THEN "struct" ELSE t.k

ErrNotSerializable(t) == "ssz: type " \o KindName(t) \o " is not SSZ-serializable"

ErrNilPtr == "ssz: empty pointer is not supported by ssz"

ErrNegativeBigInt == "ssz: cannot encode negative *big.Int"

ErrBigIntRange == "ssz: only 9-32 bytes *big.Int are supported"

(***************************************************************************)
(* Bytes and numerals.                                                     *)
(***************************************************************************)
Byte == 0..255

RECURSIVE Flatten(_)
\* The concatenation of a sequence of byte strings.
Flatten(ss) == IF ss = <<>> THEN <<>> ELSE Head(ss) \o Flatten(Tail(ss))

\* The last w digits of a numeral: the conversion to a w-byte unsigned type.
Truncate(num, w) == SubSeq(num, Len(num) - w + 1, Len(num))

\* v.Uint(): the numeral zero-extended to the 8 digits of a uint64.
ZeroExtend(num) == [i \in 1..(8 - Len(num)) |-> 0] \o num

\* uint64(int8(b)): the byte read as a signed int8, then converted to uint64
\* (two's complement: 0xff in every higher digit when b >= 128).
SignExtend(b) == [i \in 1..7 |-> IF b >= 128 THEN 255 ELSE 0] \o <<b>>

\* binary.LittleEndian.PutUintN: the w digits, least significant first.
LittleEndianPut(num, w) == [i \in 1..w |-> num[Len(num) + 1 - i]]

\* The bytes taken most significant first.
BigEndianGet(bs, w) == [i \in 1..w |-> bs[i]]

\* binary.LittleEndian.UintN: the numeral of w little-endian bytes.
LittleEndianGet(bs, w) == [i \in 1..w |-> bs[w + 1 - i]]

\* binary.LittleEndian.PutUint32 of a small non-negative int.
PutUint32(n) ==
    << n % 256, (n \div 256) % 256, (n \div 65536) % 256, (n \div 16777216) % 256 >>

(***************************************************************************)
(* The type classifier (types.go).                                         *)
(***************************************************************************)
isUint(t) == t.k = "uint"

\* No modelled type implements Encoder, so the second conjunct is true.
isByte(t) == t.k = "uint" /\ t.w = 1

RECURSIVE isFixedType(_)
isFixedType(typ) ==
    CASE typ.k = "ptr" -> isFixedType(typ.elem)
      [] typ.k = "bool" \/ isUint(typ) -> TRUE
      [] typ.k = "array" /\ isByte(typ.elem) -> TRUE
      [] typ.k = "slice" /\ isByte(typ.elem) -> FALSE
      [] typ.k = "array" -> isFixedType(typ.elem)
      [] typ.k = "struct" ->
            \A i \in 1..Len(typ.fields) : isFixedType(typ.fields[i].typ)
      \* big.Int is struct{neg bool; abs nat} and nat is a slice
      [] typ.k = "bigint" -> FALSE
      [] typ.k = "slice" -> FALSE
      [] OTHER -> FALSE

RECURSIVE SumSeq(_)
SumSeq(ns) == IF ns = <<>> THEN 0 ELSE Head(ns) + SumSeq(Tail(ns))

RECURSIVE getTypeSize(_, _)
\* The size of value v of type t; -1 stands for the panic of v.Index(0) on an
\* array of length 0 ("reflect: array index out of range").
getTypeSize(t, v) ==
    CASE t.k = "ptr" -> IF v = <<>> THEN 0 ELSE getTypeSize(t.elem, v[1])
      [] t.k = "bool" \/ (t.k = "uint" /\ t.w = 1) -> 1
      [] t.k = "uint" -> t.w
      [] t.k = "array" /\ isByte(t.elem) -> Len(v)
      [] t.k = "slice" /\ isByte(t.elem) -> 4
      [] t.k = "array" ->
            IF isFixedType(t)
            THEN IF Len(v) = 0 THEN -1
                 ELSE LET s == getTypeSize(t.elem, v[1])
                      IN  IF s < 0 THEN -1 ELSE Len(v) * s
            ELSE 4
      [] t.k = "struct" ->
            IF isFixedType(t)
            THEN LET sizes == [i \in 1..Len(v) |-> getTypeSize(t.fields[i].typ, v[i])]
                 IN  IF \E i \in 1..Len(v) : sizes[i] < 0
                     THEN -1 ELSE SumSeq(sizes)
            ELSE 4
      [] t.k = "bigint" -> 4
      [] t.k = "slice" -> 4
      [] OTHER -> 0

(***************************************************************************)
(* Encoder dispatch (types.go).  A cache is a function from the types      *)
(* stored so far to the name of the encoder stored for each.               *)
(***************************************************************************)
EmptyCache == << >>

\* sync.Map.Store
Store(cache, t, f) ==
    [x \in (DOMAIN cache) \cup {t} |-> IF x = t THEN f ELSE cache[x]]

\* None of the modelled types implements Encoder, so the first two cases of
\* the switch are never taken.  A *big.Int is caught by the Ptr case, which
\* precedes the AssignableTo(PtrTo(bigInt)) case.
newTypeEncoder(t) ==
    CASE t.k = "ptr" -> [f |-> "encodePtr", err |-> Nil]
      [] t.k = "bigint" -> [f |-> "encodeBigIntNoPtr", err |-> Nil]
      [] t.k = "bool" -> [f |-> "encodeBool", err |-> Nil]
      [] isUint(t) -> [f |-> "encodeUint", err |-> Nil]
      [] t.k = "array" /\ isByte(t.elem) -> [f |-> "encodeByteArray", err |-> Nil]
      [] t.k = "slice" /\ isByte(t.elem) -> [f |-> "encodeByteSlice", err |-> Nil]
      [] t.k = "slice" -> [f |-> "encodeSlice", err |-> Nil]
      [] t.k = "array" -> [f |-> "encodeArray", err |-> Nil]
      [] t.k = "struct" -> [f |-> "encodeStruct", err |-> Nil]
      [] OTHER -> [f |-> "", err |-> ErrNotSerializable(t)]

\* Load; on a miss newTypeEncoder and, when it succeeds, Store.
typeEncoder(cache, t) ==
    IF t \in DOMAIN cache
    THEN [f |-> cache[t], err |-> Nil, cache |-> cache]
    ELSE LET n == newTypeEncoder(t)
         IN  IF n.err # Nil
             THEN [f |-> "", err |-> n.err, cache |-> cache]
             ELSE [f |-> n.f, err |-> Nil, cache |-> Store(cache, t, n.f)]

(***************************************************************************)
(* The encoders (encode.go).  An encoder maps a machine record             *)
(*   [buffer, auxBuffer : the encodeState e it writes to,                  *)
(*    cache             : encoderCache,                                    *)
(*    pooled            : the encodeState that encodeStatePool.Get hands   *)
(*                        out next, with what its last user left in it,    *)
(*    err               : the error returned,                              *)
(*    took              : whether an inner state was taken from the pool,  *)
(*    offsets           : the offsets written to e.buffer so far, in       *)
(*                        order (a history of the call, read by no         *)
(*                        encoder)]                                        *)
(* to the record after the call.                                           *)
(***************************************************************************)
FreshState == [buffer |-> <<>>, auxBuffer |-> <<>>]

\* An encodeState used as the pool handed it out.
keep(es) == es

\* encodeState.reset
reset(es) == [es EXCEPT !.buffer = <<>>, !.auxBuffer = <<>>]

Write(m, bs) == [m EXCEPT !.buffer = @ \o bs]

Fail(m, err) == [m EXCEPT !.err = err]

encodeBool(m, v) == Write(m, IF v THEN <<1>> ELSE <<0>>)

encodeUint(m, t, v) == Write(m, LittleEndianPut(ZeroExtend(v), t.w))

\* The bytes of a [N]byte or []byte value.
Bytes(v) == [i \in 1..Len(v) |-> v[i][1]]

encodeByteArray(m, v) == Write(m, Bytes(v))

encodeByteSlice(m, v) == Write(m, Bytes(v))

\* encodeBigInt without its two checks: whatever the sign and the length,
\* the low bytes are written.
encodeBigIntUnchecked(m, i) ==
    LET length == IF Len(i.mag) >= 17 THEN 32 ELSE 16
    IN  Write(m, [j \in 1..length |->
                     IF j <= Len(i.mag) THEN i.mag[Len(i.mag) - j + 1] ELSE 0])

\* i = [neg |-> BOOLEAN, mag |-> i.Bytes()]
encodeBigInt(m, i) ==
    LET bigEndian == i.mag
        length == IF Len(bigEndian) >= 17 THEN 32 ELSE 16
        scratch == [j \in 1..length |->
                       IF j <= Len(bigEndian)
                       THEN bigEndian[Len(bigEndian) - j + 1] ELSE 0]
    IN  IF i.neg THEN Fail(m, ErrNegativeBigInt)
        ELSE IF Len(bigEndian) < 9 \/ Len(bigEndian) > 32
             THEN Fail(m, ErrBigIntRange)
             ELSE Write(m, scratch)

encodeBigIntNoPtr(m, v) == encodeBigInt(m, v)

\* PutUint32 into scratch[:4] and e.buffer.Write(scratch[:4]).
WriteOffset(m, n) == [Write(m, PutUint32(n)) EXCEPT !.offsets = Append(@, n)]

encodeLength(m, len) == WriteOffset(m, len)

\* The machine of the inner state of a variable-size child: Get, then reset.
Inner(m) ==
    LET inner == reset(m.pooled)
    IN  [m EXCEPT !.buffer = inner.buffer, !.auxBuffer = inner.auxBuffer,
                  !.offsets = <<>>]

\* After the inner encoder returned r: the outer state e (machine m) takes
\* inner.buffer into its auxBuffer, and inner goes back to the pool as it is.
Absorb(m, r) ==
    [m EXCEPT !.auxBuffer = @ \o r.buffer,
              !.cache = r.cache,
              !.pooled = [buffer |-> r.buffer, auxBuffer |-> r.auxBuffer],
              !.took = TRUE]

\* The inner encoder panicked in r: the panic passes through the encoder
\* of the outer state e (machine m), which keeps the bytes it has.  put says
\* whether the inner state goes back to the pool on the way (the deferred
\* Put of encodeStruct) or is dropped (encodeArray, encodeSlice).
Unwind(m, r, put) ==
    [m EXCEPT !.err = Panic,
              !.cache = r.cache,
              !.pooled = IF put THEN [buffer |-> r.buffer, auxBuffer |-> r.auxBuffer]
                         ELSE IF r.took THEN r.pooled ELSE m.pooled,
              !.took = m.took \/ r.took \/ put]

\* e.buffer.Write(e.auxBuffer.Bytes()); e.auxBuffer.Reset()
Flush(m) == [m EXCEPT !.buffer = @ \o m.auxBuffer, !.auxBuffer = <<>>]

RECURSIVE encodeValue(_, _, _, _)
RECURSIVE encodeArrayFrom(_, _, _, _, _, _)
RECURSIVE encodeSliceFrom(_, _, _, _, _, _)
RECURSIVE walkStructEncode(_, _, _, _, _)

encodePtr(m, t, v) ==
    IF v = <<>> THEN Fail(m, ErrNilPtr)
    ELSE LET te == typeEncoder(m.cache, t.elem)
         IN  IF te.err # Nil THEN Fail(m, te.err)
             ELSE encodeValue(te.f, [m EXCEPT !.cache = te.cache], t.elem, v[1])

\* The loop of encodeArray from element i on; ef = "" is the nil encoderFunc.
encodeArrayFrom(m, t, v, i, s1size, ef) ==
    IF i > Len(v) THEN Flush(m)
    ELSE LET te == IF ef = "" THEN typeEncoder(m.cache, t.elem)
                   ELSE [f |-> ef, err |-> Nil, cache |-> m.cache]
             m1 == [m EXCEPT !.cache = te.cache]
         IN  IF te.err # Nil THEN m
             ELSE IF isFixedType(t.elem)
             THEN LET r == encodeValue(te.f, m1, t.elem, v[i])
                  IN  IF r.err # Nil THEN r
                      ELSE encodeArrayFrom(r, t, v, i + 1, s1size, te.f)
             ELSE LET m2 == encodeLength(m1, s1size + Len(m1.auxBuffer))
                      r == encodeValue(te.f, Inner(m2), t.elem, v[i])
                  IN  IF r.err = Panic THEN Unwind(m2, r, FALSE)
                      ELSE encodeArrayFrom(Absorb(m2, r), t, v, i + 1, s1size, te.f)

\* v.Type().Elem().Kind() == reflect.Interface does not occur among the
\* modelled types, so s1size is 0 or 4 * v.Len().
encodeArray(m, t, v) ==
    LET s1size == IF ~isFixedType(t) THEN 4 * Len(v) ELSE 0
    IN  encodeArrayFrom(m, t, v, 1, s1size, "")

\* The loop of encodeSlice from element i on.
encodeSliceFrom(m, t, v, i, s1size, ef) ==
    IF i > Len(v) THEN Flush(m)
    ELSE IF isFixedType(t.elem)
         THEN LET r == encodeValue(ef, m, t.elem, v[i])
              IN  IF r.err = Panic THEN r
                  ELSE encodeSliceFrom(Fail(r, Nil), t, v, i + 1, s1size, ef)
         ELSE LET m2 == encodeLength(m, s1size + Len(m.auxBuffer))
                  r == encodeValue(ef, Inner(m2), t.elem, v[i])
              IN  IF r.err = Panic THEN Unwind(m2, r, FALSE)
                  ELSE encodeSliceFrom(Absorb(m2, r), t, v, i + 1, s1size, ef)

\* A nil slice and an empty one are both the value <<>>: encodeSlice returns
\* nil for both and leaves e as it was, but for the lookup of the element
\* encoder.
encodeSlice(m, t, v) ==
    LET s1size == IF ~isFixedType(t.elem) THEN Len(v) * 4 ELSE 0
        te == typeEncoder(m.cache, t.elem)
    IN  IF te.err # Nil THEN m
        ELSE encodeSliceFrom([m EXCEPT !.cache = te.cache], t, v, 1, s1size, te.f)

\* The indices of the exported fields, in order (walkStruct).
walkStruct(t) ==
    LET RECURSIVE From(_)
        From(i) == IF i > Len(t.fields) THEN <<>>
                   ELSE (IF t.fields[i].exported THEN <<i>> ELSE <<>>) \o From(i + 1)
    IN  From(1)

\* The first walk of encodeStruct: the sum of getTypeSize over the exported
\* fields, or -1 when getTypeSize panics.
structHeadSize(t, v) ==
    LET idx == walkStruct(t)
        sizes == [j \in 1..Len(idx) |-> getTypeSize(t.fields[idx[j]].typ, v[idx[j]])]
    IN  IF \E j \in 1..Len(idx) : sizes[j] < 0 THEN -1 ELSE SumSeq(sizes)

\* The second walk of encodeStruct from the j-th exported field on.  The
\* callback's error stops the walk; encodeStruct drops what walkStruct
\* returns, so the walk ends in the machine it reached.
walkStructEncode(m, t, v, j, s1size) ==
    LET idx == walkStruct(t)
    IN  IF j > Len(idx) THEN m
        ELSE LET ft == t.fields[idx[j]].typ
                 value == v[idx[j]]
                 te == typeEncoder(m.cache, ft)
                 m1 == [m EXCEPT !.cache = te.cache]
             IN  IF te.err # Nil THEN m
                 ELSE IF isFixedType(ft)
                 THEN LET r == encodeValue(te.f, m1, ft, value)
                      IN  IF r.err = Panic THEN r
                          ELSE walkStructEncode(Fail(r, Nil), t, v, j + 1, s1size)
                 ELSE LET m2 == WriteOffset(m1, s1size + Len(m1.auxBuffer))
                          r == encodeValue(te.f, Inner(m2), ft, value)
                      IN  IF r.err = Panic THEN Unwind(m2, r, TRUE)
                          ELSE walkStructEncode(Absorb(m2, r), t, v, j + 1, s1size)

encodeStruct(m, t, v) ==
    LET s1size == structHeadSize(t, v)
    IN  IF s1size < 0 THEN Fail(m, Panic)
        ELSE LET r == walkStructEncode(m, t, v, 1, s1size)
             IN  IF r.err = Panic THEN r ELSE Flush(r)

\* The call ef(e, v) of the encoderFunc named ef.
encodeValue(ef, m, t, v) ==
    CASE ef = "encodePtr" -> encodePtr(m, t, v)
      [] ef = "encodeBigIntNoPtr" -> encodeBigIntNoPtr(m, v)
      [] ef = "encodeBool" -> encodeBool(m, v)
      [] ef = "encodeUint" -> encodeUint(m, t, v)
      [] ef = "encodeByteArray" -> encodeByteArray(m, v)
      [] ef = "encodeByteSlice" -> encodeByteSlice(m, v)
      [] ef = "encodeSlice" -> encodeSlice(m, t, v)
      [] ef = "encodeArray" -> encodeArray(m, t, v)
      [] ef = "encodeStruct" -> encodeStruct(m, t, v)

\* The machine of a call that writes to encodeState es.
Machine(es, cache, pooled) ==
    [buffer |-> es.buffer, auxBuffer |-> es.auxBuffer, cache |-> cache,
     pooled |-> pooled, err |-> Nil, took |-> FALSE, offsets |-> <<>>]

\* Encode on its own: a new encodeState, an empty cache and an empty pool.
\* out is what toWriter hands to the writer.
EncodeAlone(t, v) ==
    LET m == Machine(reset(FreshState), EmptyCache, FreshState)
        te == typeEncoder(m.cache, t)
        r == IF te.err # Nil THEN Fail(m, te.err)
             ELSE encodeValue(te.f, [m EXCEPT !.cache = te.cache], t, v)
    IN  [out |-> IF r.err = Nil THEN r.buffer ELSE <<>>, err |-> r.err,
         offsets |-> r.offsets]

(***************************************************************************)
(* The Stream and its bytes.Reader (decode.go).  A reader is nil or holds  *)
(* its bytes s and the index i of the next byte (0-based, as in Go).       *)
(***************************************************************************)
NilReader == [nil |-> TRUE, s |-> <<>>, i |-> 0]

\* bytes.NewReader(buf)
NewReader(buf) == [nil |-> FALSE, s |-> buf, i |-> 0]

\* new(Stream): the r field is nil.
FreshStream == [r |-> NilReader]

\* Stream.readByte, i.e. bytes.Reader.ReadByte; a nil reader is dereferenced.
readByte(r) ==
    IF r.nil THEN [r |-> r, err |-> Panic, b |-> 0]
    ELSE IF r.i >= Len(r.s) THEN [r |-> r, err |-> EOF, b |-> 0]
    ELSE [r |-> [r EXCEPT !.i = @ + 1], err |-> Nil, b |-> r.s[r.i + 1]]

\* Stream.readBytes into a buffer of n bytes: Read is called until n bytes
\* are there or it fails; it returns EOF only when no byte is left, and that
\* EOF becomes ErrUnexpectedEOF because fewer than n bytes were read.
readBytes(r, n) ==
    IF n = 0 THEN [r |-> r, err |-> Nil, p |-> <<>>]
    ELSE IF r.nil THEN [r |-> r, err |-> Panic, p |-> <<>>]
    ELSE LET avail == Len(r.s) - r.i
         IN  IF avail >= n
             THEN [r |-> [r EXCEPT !.i = @ + n], err |-> Nil,
                   p |-> SubSeq(r.s, r.i + 1, r.i + n)]
             ELSE [r |-> [r EXCEPT !.i = Len(r.s)], err |-> ErrUnexpectedEOF,
                   p |-> SubSeq(r.s, r.i + 1, Len(r.s))]

\* binary.LittleEndian.Uint32 as a number.  Numbers from 2^31 on are shown
\* as 2^31 - 1: every section of the model is far shorter, and the code only
\* compares an offset with a section's size or subtracts it from it.
Uint32(bs) ==
    IF bs[4] >= 128 THEN 2147483647
    ELSE bs[1] + 256 * bs[2] + 65536 * bs[3] + 16777216 * bs[4]

readOffset(r) ==
    LET rb == readBytes(r, 4)
    IN  IF rb.err # Nil THEN [r |-> rb.r, err |-> rb.err, offset |-> 0]
        ELSE [r |-> rb.r, err |-> Nil, offset |-> Uint32(rb.p)]

\* Stream.size: the length of the reader's bytes, read or not.
size(r) == Len(r.s)

\* Stream.newSectionStream: make([]byte, length) panics on a negative
\* length; ReadAt fails with EOF when offset is at or past the end, or when
\* fewer than length bytes follow it.
newSectionStream(r, offset, length) ==
    IF r.nil \/ length < 0 THEN [r |-> NilReader, err |-> Panic]
    ELSE IF offset >= Len(r.s) THEN [r |-> NilReader, err |-> EOF]
    ELSE IF Len(r.s) - offset < length THEN [r |-> NilReader, err |-> EOF]
    ELSE [r |-> NewReader(SubSeq(r.s, offset + 1, offset + length)), err |-> Nil]

(***************************************************************************)
(* Decoder dispatch (types.go).                                            *)
(***************************************************************************)
\* None of the modelled types implements Decoder.
newTypeDecoder(t) ==
    CASE t.k = "bool" -> [f |-> "decodeBool", err |-> Nil]
      [] isUint(t) -> [f |-> "decodeUint", err |-> Nil]
      [] t.k = "slice" -> [f |-> "decodeSlice", err |-> Nil]
      [] t.k = "array" -> [f |-> "decodeArray", err |-> Nil]
      [] OTHER -> [f |-> "", err |-> ErrNotSerializable(t)]

typeDecoder(cache, t) ==
    IF t \in DOMAIN cache
    THEN [f |-> cache[t], err |-> Nil, cache |-> cache]
    ELSE LET n == newTypeDecoder(t)
         IN  IF n.err # Nil
             THEN [f |-> "", err |-> n.err, cache |-> cache]
             ELSE [f |-> n.f, err |-> Nil, cache |-> Store(cache, t, n.f)]

(***************************************************************************)
(* The decoders (decode.go).  A decoder maps the reader r of its Stream,   *)
(* the decoderCache and the value val it decodes into to a record          *)
(* [r, cache, err, val] after the call.                                    *)
(***************************************************************************)
RECURSIVE Zero(_)
\* The zero value of a type (what new(T) points to).
Zero(t) ==
    CASE t.k = "bool" -> FALSE
      [] t.k = "uint" -> [i \in 1..t.w |-> 0]
      [] t.k \in {"int8", "int16", "int32", "int64"} -> <<0>>
      [] t.k = "bigint" -> [neg |-> FALSE, mag |-> <<>>]
      [] t.k = "ptr" -> <<>>
      [] t.k = "slice" -> <<>>
      [] t.k = "array" -> [i \in 1..t.n |-> Zero(t.elem)]
      [] t.k = "struct" -> [i \in 1..Len(t.fields) |-> Zero(t.fields[i].typ)]

decodeBool(r, cache, val) ==
    LET rb == readByte(r)
    IN  IF rb.err # Nil THEN [r |-> rb.r, cache |-> cache, err |-> rb.err, val |-> val]
        ELSE [r |-> rb.r, cache |-> cache, err |-> Nil, val |-> (rb.b = 1)]

\* val.SetUint(x) on a value of kind uintN stores uintN(x).
SetUint(t, x) == Truncate(x, t.w)

decodeUint(r, cache, t, val) ==
    LET sz == getTypeSize(t, val)
        rb == readBytes(r, sz)
    IN  IF rb.err # Nil THEN [r |-> rb.r, cache |-> cache, err |-> rb.err, val |-> val]
        ELSE [r |-> rb.r, cache |-> cache, err |-> Nil,
              val |-> IF sz = 1 THEN SetUint(t, SignExtend(rb.p[1]))
                      ELSE SetUint(t, ZeroExtend(LittleEndianGet(rb.p, sz)))]

RECURSIVE decodeValue(_, _, _, _, _)
RECURSIVE decodeSliceElemsFrom(_, _, _, _, _, _)
RECURSIVE decodeArrayFrom(_, _, _, _, _, _)

\* The loop of decodeSliceElems at index i.  The slice is grown to hold
\* element i (a zero element when val is no longer), then the element is
\* decoded in place.  An element decoder that returns nil without reading a
\* byte leaves the Stream as it found it, so every later iteration repeats
\* this one: the loop never ends.
decodeSliceElemsFrom(r, cache, t, val, elemdec, i) ==
    LET grown == IF i + 1 > Len(val) THEN Append(val, Zero(t.elem)) ELSE val
        d == decodeValue(elemdec, r, cache, t.elem, grown[i + 1])
        stored == [grown EXCEPT ![i + 1] = d.val]
    IN  IF d.err = EOF
        THEN [r |-> d.r, cache |-> d.cache, err |-> Nil, val |-> SubSeq(stored, 1, i)]
        ELSE IF d.err # Nil
        THEN [r |-> d.r, cache |-> d.cache, err |-> d.err, val |-> stored]
        ELSE IF d.r = r
        THEN [r |-> d.r, cache |-> d.cache, err |-> Diverges, val |-> stored]
        ELSE decodeSliceElemsFrom(d.r, d.cache, t, stored, elemdec, i + 1)

decodeSliceElems(r, cache, t, val, elemdec) ==
    decodeSliceElemsFrom(r, cache, t, val, elemdec, 0)

decodeSlice(r, cache, t, val) ==
    LET td == typeDecoder(cache, t.elem)
    IN  IF td.err # Nil THEN [r |-> r, cache |-> cache, err |-> Nil, val |-> val]
        ELSE IF ~isFixedType(t.elem)
        THEN LET ro == readOffset(r)
                 ss == newSectionStream(ro.r, ro.offset, size(ro.r) - ro.offset)
                 d == decodeSliceElems(ss.r, td.cache, t, val, td.f)
             IN  IF ro.err # Nil
                 THEN [r |-> ro.r, cache |-> td.cache, err |-> ro.err, val |-> val]
                 ELSE IF ss.err # Nil
                 THEN [r |-> ro.r, cache |-> td.cache, err |-> ss.err, val |-> val]
                 ELSE [d EXCEPT !.r = ro.r]
        ELSE decodeSliceElems(r, td.cache, t, val, td.f)

\* The loop of decodeArray (the branch for val.Kind() != Interface, the only
\* one an array value can take) at index i.
decodeArrayFrom(r, cache, t, val, df, i) ==
    IF i >= Len(val) THEN [r |-> r, cache |-> cache, err |-> Nil, val |-> val]
    ELSE LET d == decodeValue(df, r, cache, t.elem, val[i + 1])
             stored == [val EXCEPT ![i + 1] = d.val]
         IN  IF d.err = EOF
             THEN [r |-> d.r, cache |-> d.cache, err |-> Nil, val |-> stored]
             ELSE IF d.err # Nil
             THEN [r |-> d.r, cache |-> d.cache, err |-> d.err, val |-> stored]
             ELSE decodeArrayFrom(d.r, d.cache, t, stored, df, i + 1)

decodeArray(r, cache, t, val) ==
    LET td == typeDecoder(cache, t.elem)
    IN  IF td.err # Nil THEN [r |-> r, cache |-> cache, err |-> Nil, val |-> val]
        ELSE decodeArrayFrom(r, td.cache, t, val, td.f, 0)

\* The call df(s, val) of the DecoderFunc named df.
decodeValue(df, r, cache, t, val) ==
    CASE df = "decodeBool" -> decodeBool(r, cache, val)
      [] df = "decodeUint" -> decodeUint(r, cache, t, val)
      [] df = "decodeSlice" -> decodeSlice(r, cache, t, val)
      [] df = "decodeArray" -> decodeArray(r, cache, t, val)

\* Stream.Decode(val) for val a non-nil pointer to a value of type t.
StreamDecode(r, cache, t, val) ==
    LET n == newTypeDecoder(t)
    IN  IF n.err # Nil THEN [r |-> r, cache |-> cache, err |-> n.err, val |-> val]
        ELSE decodeValue(n.f, r, cache, t, val)

(***************************************************************************)
(* Bounds and the inputs of the calls.                                     *)
(***************************************************************************)
\* The callers that may run at once.
NProcs == 2

\* The longest slice value.
MaxLen == 2

\* The longest byte string handed to Decode as it is.
MaxBytes == 3

\* The calls one caller makes in a row.
MaxCalls == 2

\* Pooled objects that may exist beyond one per caller.
SpareObjects == 1

Procs == 1..NProcs

\* All sequences over S of length at most n.
RECURSIVE SeqsUpTo(_, _)
SeqsUpTo(S, n) ==
    IF n = 0 THEN {<<>>}
    ELSE LET shorter == SeqsUpTo(S, n - 1)
         IN  shorter \cup {Append(q, x) : q \in {r \in shorter : Len(r) = n - 1}, x \in S}

\* i.Bytes() of a big.Int of n bytes: big-endian, the first byte not zero.
BigMag(n) == [i \in 1..n |-> i]

\* Byte lengths of the big.Int values encoded: 0 (the zero of TestEncode),
\* and both sides of each edge of the ranges 9..16 and 17..32.
BigLens == {0, 8, 9, 16, 17, 32, 33}

\* The values of a scalar type encoded or decoded on its own: every uint8,
\* and for the wider types the numerals over digits that include 0x00, 0x80
\* and 0xff (so the maximum, and values whose bytes differ in every order).
TopValues(t) ==
    CASE t.k = "bool" -> BOOLEAN
      [] t.k = "uint" /\ t.w = 1 -> {<<b>> : b \in Byte}
      [] t.k = "uint" /\ t.w = 2 -> [1..2 -> {0, 1, 128, 255}]
      [] t.k = "uint" /\ t.w = 4 -> [1..4 -> {0, 255}] \cup {<<0, 1, 0, 0>>}
      [] t.k = "uint" /\ t.w = 8 ->
            {[i \in 1..8 |-> IF i \in S THEN 255 ELSE 0] : S \in SUBSET {1, 2, 7, 8}}
            \cup {<<0, 0, 0, 1, 0, 0, 0, 0>>, [i \in 1..8 |-> 255]}
      [] t.k \in {"int8", "int16", "int32", "int64"} -> {<<0>>}
      [] t.k = "bigint" ->
            { [neg |-> FALSE, mag |-> <<2, 0, 0, 0, 0, 0, 0, 0, 1>>],
              [neg |-> TRUE, mag |-> <<1>>],
              [neg |-> TRUE, mag |-> BigMag(9)] }
            \cup {[neg |-> FALSE, mag |-> BigMag(n)] : n \in BigLens}

RECURSIVE Values(_)
\* The values of a type as a child of a composite, and of a composite.
Values(t) ==
    CASE t.k = "bool" -> BOOLEAN
      [] t.k = "uint" -> {[i \in 1..t.w |-> 255], [i \in 1..t.w |-> IF i = t.w THEN 1 ELSE 0]}
      [] t.k = "int8" -> {<<0>>}
      [] t.k = "bigint" ->
            { [neg |-> FALSE, mag |-> <<2, 0, 0, 0, 0, 0, 0, 0, 1>>],
              [neg |-> TRUE, mag |-> <<1>>] }
      [] t.k = "ptr" -> {<<>>} \cup {<<x>> : x \in Values(t.elem)}
      [] t.k = "slice" -> SeqsUpTo(Values(t.elem), MaxLen)
      [] t.k = "array" -> [1..t.n -> Values(t.elem)]
      [] t.k = "struct" ->
            LET RECURSIVE Prod(_)
                Prod(i) == IF i = 0 THEN {<<>>}
                           ELSE {Append(q, x) : q \in Prod(i - 1),
                                                x \in Values(t.fields[i].typ)}
            IN  Prod(Len(t.fields))

ScalarTypes ==
    { TBool, TUint(1), TUint(2), TUint(4), TUint(8),
      TInt8, TInt16, TInt32, TInt64, TBigInt }

\* struct{A bool; B uint8; C []byte} of TestEncode, and the shapes around it.
CompositeTypes ==
    { TSlice(TBool), TSlice(TByte), TSlice(TUint(2)), TSlice(TInt8),
      TSlice(TSlice(TByte)), TSlice(TSlice(TBool)),
      TArray(0, TBool), TArray(2, TBool), TArray(0, TByte), TArray(2, TByte),
      TArray(2, TUint(2)), TArray(2, TSlice(TByte)), TArray(1, TInt8),
      TPtr(TBool), TArray(2, TPtr(TBool)),
      TArray(2, TStruct(<<Exp(TSlice(TByte)), Exp(TPtr(TArray(0, TBool)))>>)),
      TStruct(<<Exp(TBool), Exp(TByte), Exp(TSlice(TByte))>>),
      TStruct(<<Exp(TSlice(TByte)), Exp(TArray(1, TBool)), Exp(TSlice(TByte))>>),
      TStruct(<<Exp(TSlice(TByte)), Exp(TStruct(<<Exp(TBool)>>)), Exp(TBool)>>),
      TStruct(<<Exp(TBool), Exp(TArray(2, TByte)), Exp(TUint(2))>>),
      TStruct(<<Exp(TBool), Unexp(TUint(2))>>),
      TStruct(<<Exp(TStruct(<<Exp(TBool), Exp(TUint(4))>>))>>),
      TStruct(<<Exp(TArray(0, TBool))>>),
      TStruct(<<Exp(TInt8)>>),
      TStruct(<<Exp(TBool), Exp(TPtr(TBool))>>),
      TStruct(<<Exp(TBigInt), Exp(TBool)>>) }

\* The (type, value) pairs of a caller's first Encode.
EncInputs ==
    UNION {{[t |-> t, v |-> v] : v \in TopValues(t)} : t \in ScalarTypes}
    \cup UNION {{[t |-> t, v |-> v] : v \in Values(t)} : t \in CompositeTypes}
    \cup {[t |-> TPtr(TBigInt), v |-> <<x>>] : x \in TopValues(TBigInt)}

\* A later Encode of a caller.
MoreEncInputs ==
    { [t |-> TBool, v |-> TRUE],
      [t |-> TSlice(TSlice(TByte)), v |-> << << <<1>> >> >>] }

\* The source handed to Decode: a *bytes.Reader, another io.Reader whose
\* bytes ReadAll returns, or an io.Reader whose Read fails.
BytesReader(bs) == [kind |-> "bytes.Reader", bytes |-> bs]

OtherReader(bs) == [kind |-> "io.Reader", bytes |-> bs]

FailingReader == [kind |-> "failing io.Reader", bytes |-> <<>>]

NoSrc == [kind |-> "none", bytes |-> <<>>]

NoVal == <<>>

NoType == [k |-> "none"]

\* The encoding of one scalar element (encodeBool, encodeUint).
ElementBytes(t, x) ==
    encodeValue(newTypeEncoder(t).f, Machine(FreshState, EmptyCache, FreshState), t, x).buffer

\* Decode of a slice of fixed-size scalars from the concatenation of the
\* encodings of the elements of v.
ElementInputs ==
    UNION {{[t |-> t, v |-> v, from |-> "elements",
             src |-> BytesReader(Flatten([i \in 1..Len(v) |-> ElementBytes(t.elem, v[i])]))]
            : v \in Values(t)}
           : t \in {TSlice(TBool), TSlice(TByte), TSlice(TUint(2)), TSlice(TUint(4)),
                    TSlice(TUint(8))}}

\* Decode from arbitrary short byte strings.
ByteInputs ==
    {[t |-> t, v |-> NoVal, from |-> "bytes", src |-> BytesReader(bs)]
        : t \in {TBool, TUint(1), TUint(2), TUint(4), TUint(8), TArray(2, TBool),
                 TArray(2, TUint(2)), TArray(0, TBool), TSlice(TBool),
                 TSlice(TArray(2, TBool)), TSlice(TInt8), TInt8,
                 TStruct(<<Exp(TBool)>>)},
          bs \in SeqsUpTo({0, 1, 255}, MaxBytes)}

\* Decode of a slice of variable-size elements from a first offset and the
\* bytes after it.
SectionInputs ==
    {[t |-> t, v |-> NoVal, from |-> "bytes", src |-> BytesReader(o \o bs)]
        : t \in {TSlice(TSlice(TByte)), TSlice(TSlice(TBool))},
          o \in {<<0, 0, 0, 0>>, <<4, 0, 0, 0>>, <<5, 0, 0, 0>>, <<6, 0, 0, 0>>,
                 <<255, 0, 0, 0>>, <<4, 0, 0, 255>>},
          bs \in SeqsUpTo({0, 1}, MaxLen)}

\* Decode from a source that fails.
FailingInputs ==
    {[t |-> t, v |-> NoVal, from |-> "bytes", src |-> FailingReader]
        : t \in {TBool, TUint(2), TSlice(TBool)}}

DecInputs == ElementInputs \cup ByteInputs \cup SectionInputs \cup FailingInputs

(***************************************************************************)
(* The state: the callers, the two pools and the two caches.               *)
(***************************************************************************)
VARIABLES
    proc,           \* per caller: the call it is in and where it is in it
    esMem,          \* the encodeStates allocated so far, by id
    encodeStatePool,\* the ids of the encodeStates in the pool
    stMem,          \* the Streams allocated so far, by id
    streamPool,     \* the ids of the Streams in the pool
    encoderCache,
    decoderCache

vars == <<proc, esMem, encodeStatePool, stMem, streamPool, encoderCache, decoderCache>>

\* got and gotInner are histories read by no step: the encodeState as
\* encodeStatePool.Get returned it in Encode, and the one the encoders were
\* handed for their variable-size children, before reset.
IdleProc(n) ==
    [pc |-> "idle", op |-> "none", typ |-> NoType, val |-> NoVal, src |-> NoSrc,
     from |-> "none", sink |-> <<>>, offsets |-> <<>>, err |-> Nil,
     target |-> NoVal, held |-> 0, ef |-> "", left |-> n,
     got |-> FreshState, gotInner |-> FreshState]

\* A caller is ready for a call when it is in none and has calls left.
Ready(p) == proc[p].pc \in {"idle", "done"} /\ proc[p].left > 0

\* The caller calls Encode(w, v) with a writer w of its own.
CallEncode(p, inputs) ==
    /\ Ready(p)
    /\ \E in \in inputs :
          proc' = [proc EXCEPT ![p] =
                      [IdleProc(proc[p].left - 1) EXCEPT
                          !.pc = "EncodeGet", !.op = "Encode", !.typ = in.t, !.val = in.v]]
    /\ UNCHANGED <<esMem, encodeStatePool, stMem, streamPool, encoderCache, decoderCache>>

\* The caller calls Decode(r, new(T)).
CallDecode(p, inputs) ==
    /\ Ready(p)
    /\ \E in \in inputs :
          proc' = [proc EXCEPT ![p] =
                      [IdleProc(proc[p].left - 1) EXCEPT
                          !.pc = "DecodeGet", !.op = "Decode", !.typ = in.t,
                          !.val = in.v, !.from = in.from, !.src = in.src,
                          !.target = Zero(in.t)]]
    /\ UNCHANGED <<esMem, encodeStatePool, stMem, streamPool, encoderCache, decoderCache>>

\* As TestDecode does: after Encode(&buffer, v) returned nil, the caller
\* calls Decode(&buffer, new(T)) for the type T of v.
CallDecodeOutput(p) ==
    /\ Ready(p)
    /\ proc[p].pc = "done" /\ proc[p].op = "Encode" /\ proc[p].err = Nil
    /\ proc' = [proc EXCEPT ![p] =
                   [IdleProc(proc[p].left - 1) EXCEPT
                       !.pc = "DecodeGet", !.op = "Decode", !.typ = proc[p].typ,
                       !.val = proc[p].val, !.from = "Encode",
                       !.src = OtherReader(proc[p].sink),
                       !.target = Zero(proc[p].typ)]]
    /\ UNCHANGED <<esMem, encodeStatePool, stMem, streamPool, encoderCache, decoderCache>>

\* sync.Pool.Get: an object of the pool, or a new one (the pool may have
\* dropped what was put in it).  The number of objects is bounded.
MayAllocate(mem) == Len(mem) < NProcs + SpareObjects

\* Encode: es := encodeStatePool.Get(); defer Put(es); es.reset()
EncodeGet(p) ==
    /\ proc[p].pc = "EncodeGet"
    /\ \/ \E id \in encodeStatePool :
             /\ encodeStatePool' = encodeStatePool \ {id}
             /\ esMem' = [esMem EXCEPT ![id] = reset(@)]
             /\ proc' = [proc EXCEPT ![p].held = id, ![p].pc = "EncodeLoad",
                                     ![p].got = esMem[id]]
       \/ /\ MayAllocate(esMem)
          /\ esMem' = Append(esMem, reset(FreshState))
          /\ proc' = [proc EXCEPT ![p].held = Len(esMem) + 1, ![p].pc = "EncodeLoad"]
          /\ UNCHANGED encodeStatePool
    /\ UNCHANGED <<stMem, streamPool, encoderCache, decoderCache>>

\* es.encode: typeEncoder's encoderCache.Load and, on a miss, newTypeEncoder;
\* its error is returned by Encode.
EncodeLoad(p) ==
    /\ proc[p].pc = "EncodeLoad"
    /\ LET t == proc[p].typ
           n == newTypeEncoder(t)
       IN  proc' = [proc EXCEPT ![p] =
                       IF t \in DOMAIN encoderCache
                       THEN [@ EXCEPT !.ef = encoderCache[t], !.pc = "EncodeRun"]
                       ELSE IF n.err # Nil
                       THEN [@ EXCEPT !.err = n.err, !.pc = "EncodePut"]
                       ELSE [@ EXCEPT !.ef = n.f, !.pc = "EncodeStore"]]
    /\ UNCHANGED <<esMem, encodeStatePool, stMem, streamPool, encoderCache, decoderCache>>

\* typeEncoder's encoderCache.Store after a miss.
EncodeStore(p) ==
    /\ proc[p].pc = "EncodeStore"
    /\ encoderCache' = Store(encoderCache, proc[p].typ, proc[p].ef)
    /\ proc' = [proc EXCEPT ![p].pc = "EncodeRun"]
    /\ UNCHANGED <<esMem, encodeStatePool, stMem, streamPool, decoderCache>>

\* ef(es, rval) and, when it returns nil, es.toWriter(w), which drains
\* es.buffer into the writer.  The inner states the encoders take come from
\* one object of the pool (or a new one) and go back to it.
EncodeRun(p) ==
    /\ proc[p].pc = "EncodeRun"
    /\ \E j \in encodeStatePool \cup {0} :
          /\ j = 0 => MayAllocate(esMem)
          /\ LET es == esMem[proc[p].held]
                 pooled == IF j = 0 THEN FreshState ELSE esMem[j]
                 r == encodeValue(proc[p].ef, Machine(es, encoderCache, pooled),
                                  proc[p].typ, proc[p].val)
                 left == [buffer |-> IF r.err = Nil THEN <<>> ELSE r.buffer,
                          auxBuffer |-> r.auxBuffer]
                 mem1 == [esMem EXCEPT ![proc[p].held] = left]
             IN  /\ proc' = [proc EXCEPT ![p].err = r.err,
                                         ![p].sink = IF r.err = Nil THEN r.buffer ELSE <<>>,
                                         ![p].offsets = r.offsets,
                                         ![p].gotInner =
                                             IF r.took THEN pooled ELSE FreshState,
                                         ![p].pc = "EncodePut"]
                 /\ encoderCache' = r.cache
                 /\ IF ~r.took
                    THEN esMem' = mem1 /\ UNCHANGED encodeStatePool
                    ELSE IF j = 0
                    THEN /\ esMem' = Append(mem1, r.pooled)
                         /\ encodeStatePool' = encodeStatePool \cup {Len(esMem) + 1}
                    ELSE /\ esMem' = [mem1 EXCEPT ![j] = r.pooled]
                         /\ UNCHANGED encodeStatePool
    /\ UNCHANGED <<stMem, streamPool, decoderCache>>

\* The deferred encodeStatePool.Put(es); Encode returns.
EncodePut(p) ==
    /\ proc[p].pc = "EncodePut"
    /\ encodeStatePool' = encodeStatePool \cup {proc[p].held}
    /\ proc' = [proc EXCEPT ![p].held = 0, ![p].pc = "done"]
    /\ UNCHANGED <<esMem, stMem, streamPool, encoderCache, decoderCache>>

\* Decode: stream := streamPool.Get(); defer Put(stream)
DecodeGet(p) ==
    /\ proc[p].pc = "DecodeGet"
    /\ \/ \E id \in streamPool :
             /\ streamPool' = streamPool \ {id}
             /\ proc' = [proc EXCEPT ![p].held = id, ![p].pc = "DecodeReset"]
             /\ UNCHANGED stMem
       \/ /\ MayAllocate(stMem)
          /\ stMem' = Append(stMem, FreshStream)
          /\ proc' = [proc EXCEPT ![p].held = Len(stMem) + 1, ![p].pc = "DecodeReset"]
          /\ UNCHANGED streamPool
    /\ UNCHANGED <<esMem, encodeStatePool, encoderCache, decoderCache>>

\* Stream.Reset: the reader itself when it is a *bytes.Reader, else a reader
\* of what ReadAll returns; when ReadAll fails Reset returns the error and
\* leaves s.r as it was.
Reset(s, src) ==
    IF src.kind = "bytes.Reader" THEN [s |-> [s EXCEPT !.r = NewReader(src.bytes)], err |-> Nil]
    ELSE IF src.kind = "failing io.Reader" THEN [s |-> s, err |-> ErrReader]
    ELSE [s |-> [s EXCEPT !.r = NewReader(src.bytes)], err |-> Nil]

\* Decode: stream.Reset(r), whose result Decode drops.
DecodeReset(p) ==
    /\ proc[p].pc = "DecodeReset"
    /\ stMem' = [stMem EXCEPT ![proc[p].held] = Reset(@, proc[p].src).s]
    /\ proc' = [proc EXCEPT ![p].pc = "DecodeRun"]
    /\ UNCHANGED <<esMem, encodeStatePool, streamPool, encoderCache, decoderCache>>

\* Decode: stream.Decode(val).  A call that never returns stays in "hung"
\* and keeps its Stream.
DecodeRun(p) ==
    /\ proc[p].pc = "DecodeRun"
    /\ LET d == StreamDecode(stMem[proc[p].held].r, decoderCache, proc[p].typ,
                             proc[p].target)
       IN  /\ proc' = [proc EXCEPT ![p].err = d.err, ![p].target = d.val,
                                   ![p].pc = IF d.err = Diverges THEN "hung"
                                             ELSE "DecodePut"]
           /\ stMem' = [stMem EXCEPT ![proc[p].held].r = d.r]
           /\ decoderCache' = d.cache
    /\ UNCHANGED <<esMem, encodeStatePool, streamPool, encoderCache>>

\* The deferred streamPool.Put(stream); Decode returns.
DecodePut(p) ==
    /\ proc[p].pc = "DecodePut"
    /\ streamPool' = streamPool \cup {proc[p].held}
    /\ proc' = [proc EXCEPT ![p].held = 0, ![p].pc = "done"]
    /\ UNCHANGED <<esMem, encodeStatePool, stMem, encoderCache, decoderCache>>

\* The steps inside a call.
Step(p) ==
    \/ EncodeGet(p)
    \/ EncodeLoad(p)
    \/ EncodeStore(p)
    \/ EncodeRun(p)
    \/ EncodePut(p)
    \/ DecodeGet(p)
    \/ DecodeReset(p)
    \/ DecodeRun(p)
    \/ DecodePut(p)

(***************************************************************************)
(* Spec: one caller, whose first call ranges over all the inputs and whose *)
(* later calls are the Decode of what it encoded or one of a few calls.    *)
(***************************************************************************)
InitWith(calls) ==
    /\ proc = [p \in Procs |-> IdleProc(calls[p])]
    /\ esMem = <<>>
    /\ encodeStatePool = {}
    /\ stMem = <<>>
    /\ streamPool = {}
    /\ encoderCache = EmptyCache
    /\ decoderCache = EmptyCache

Init == InitWith([p \in Procs |-> IF p = 1 THEN MaxCalls ELSE 0])

First(p) == proc[p].pc = "idle"

Next ==
    \E p \in Procs :
        \/ First(p) /\ CallEncode(p, EncInputs)
        \/ First(p) /\ CallDecode(p, DecInputs)
        \/ ~First(p) /\ CallEncode(p, MoreEncInputs)
        \/ ~First(p) /\ CallDecode(p, FailingInputs)
        \/ CallDecodeOutput(p)
        \/ Step(p)

Spec == Init /\ [][Next]_vars

(***************************************************************************)
(* ConcSpec: NProcs callers at once, each making one call out of a few,    *)
(* their steps on the pools and the caches interleaved in every order.     *)
(***************************************************************************)
ConcEncInputs ==
    { [t |-> TBool, v |-> TRUE],
      [t |-> TStruct(<<Exp(TBool), Exp(TByte), Exp(TSlice(TByte))>>),
       v |-> <<FALSE, <<255>>, << <<255>> >> >>] }

ConcDecInputs ==
    { [t |-> TBool, v |-> NoVal, from |-> "bytes", src |-> BytesReader(<<1, 1>>)],
      [t |-> TSlice(TBool), v |-> NoVal, from |-> "bytes", src |-> OtherReader(<<1, 0>>)],
      [t |-> TBool, v |-> NoVal, from |-> "bytes", src |-> FailingReader] }

ConcInit == InitWith([p \in Procs |-> 1])

ConcNext ==
    \E p \in Procs :
        \/ CallEncode(p, ConcEncInputs)
        \/ CallDecode(p, ConcDecInputs)
        \/ Step(p)

ConcSpec == ConcInit /\ [][ConcNext]_vars

(***************************************************************************)
(* What the claims speak of.                                               *)
(***************************************************************************)
\* The call of caller p is over: it returned, or it never will.
Ran(p) == proc[p].pc \in {"done", "hung"}

Encoded(p) == Ran(p) /\ proc[p].op = "Encode"

Decoded(p) == Ran(p) /\ proc[p].op = "Decode"

\* The children of a composite value in declared order.
Children(t, v) ==
    CASE t.k = "struct" -> [i \in 1..Len(v) |-> [t |-> t.fields[i].typ, v |-> v[i]]]
      [] t.k \in {"array", "slice"} -> [i \in 1..Len(v) |-> [t |-> t.elem, v |-> v[i]]]
      [] OTHER -> <<>>

IsComposite(t) == t.k \in {"struct", "array", "slice"}

\* Every child is encoded without error when encoded on its own.
ChildrenEncode(t, v) ==
    \A i \in 1..Len(Children(t, v)) :
        EncodeAlone(Children(t, v)[i].t, Children(t, v)[i].v).err = Nil

HasVariableChild(t, v) ==
    \E i \in 1..Len(Children(t, v)) : ~isFixedType(Children(t, v)[i].t)

\* The bytes child i takes in the head: its encoding, or a 4-byte offset.
HeadLen(c) == IF isFixedType(c.t) THEN Len(EncodeAlone(c.t, c.v).out) ELSE 4

\* The payload child i adds to the tail.
Payload(c) == IF isFixedType(c.t) THEN <<>> ELSE EncodeAlone(c.t, c.v).out

HeadSizeOf(cs) == SumSeq([i \in 1..Len(cs) |-> HeadLen(cs[i])])

TailOf(cs) == Flatten([i \in 1..Len(cs) |-> Payload(cs[i])])

\* out is a head of HeadSizeOf(cs) bytes that holds every fixed child's
\* encoding at its place, followed by the payloads in order.
HeadThenTail(cs, out) ==
    LET H == HeadSizeOf(cs)
    IN  /\ Len(out) = H + Len(TailOf(cs))
        /\ SubSeq(out, H + 1, Len(out)) = TailOf(cs)
        /\ \A i \in 1..Len(cs) :
              isFixedType(cs[i].t) =>
                 LET at == HeadSizeOf(SubSeq(cs, 1, i - 1))
                 IN  SubSeq(out, at + 1, at + HeadLen(cs[i])) = EncodeAlone(cs[i].t, cs[i].v).out

\* C1: for a record or array with at least one variable-size child, the
\* bytes Encode writes are the head (the fixed children inline and a 4-byte
\* offset per variable child, in declared order) followed at once by the
\* tail (the payloads of the variable children in declared order).
C1_HeadThenTail ==
    \A p \in Procs :
        ( /\ Encoded(p) /\ proc[p].err = Nil
          /\ proc[p].typ.k \in {"struct", "array"}
          /\ HasVariableChild(proc[p].typ, proc[p].val)
          /\ ChildrenEncode(proc[p].typ, proc[p].val) )
        => HeadThenTail(Children(proc[p].typ, proc[p].val), proc[p].sink)

\* The offsets the claim asks for: for each variable child the head size
\* plus the encoded lengths of the variable children before it.
RunningOffsets(cs) ==
    LET RECURSIVE From(_)
        From(i) ==
            IF i > Len(cs) THEN <<>>
            ELSE (IF isFixedType(cs[i].t) THEN <<>>
                  ELSE <<HeadSizeOf(cs) + Len(TailOf(SubSeq(cs, 1, i - 1)))>>) \o From(i + 1)
    IN  From(1)

\* C2: inside a composite that encodeStruct, encodeArray or encodeSlice
\* encodes, the offset written for each variable-size child is the head size
\* plus the encoded lengths of the earlier variable-size children.
C2_OffsetsAreRunningTail ==
    \A p \in Procs :
        ( /\ Encoded(p) /\ proc[p].err = Nil
          /\ IsComposite(proc[p].typ)
          /\ ChildrenEncode(proc[p].typ, proc[p].val) )
        => proc[p].offsets = RunningOffsets(Children(proc[p].typ, proc[p].val))

RECURSIVE ChildFailsEncode(_, _)
\* Some child, at any depth, fails when encoded on its own.
ChildFailsEncode(t, v) ==
    LET cs == IF t.k = "ptr" /\ v # <<>> THEN <<[t |-> t.elem, v |-> v[1]]>>
              ELSE Children(t, v)
    IN  \E i \in 1..Len(cs) :
           \/ EncodeAlone(cs[i].t, cs[i].v).err # Nil
           \/ ChildFailsEncode(cs[i].t, cs[i].v)

RECURSIVE ChildFailsDecode(_)
\* The element type of a slice or array, at any depth, has no decoder.
ChildFailsDecode(t) ==
    /\ t.k \in {"slice", "array"}
    /\ \/ newTypeDecoder(t.elem).err # Nil
       \/ ChildFailsDecode(t.elem)

\* C3: when resolving or running the codec of a nested child fails, the
\* Encode or Decode call returns a non-nil error.
C3_ChildErrorSurfaces ==
    \A p \in Procs :
        ( \/ Encoded(p) /\ ChildFailsEncode(proc[p].typ, proc[p].val)
          \/ Decoded(p) /\ ChildFailsDecode(proc[p].typ) )
        => proc[p].err # Nil

\* bool, uint8..uint64, []bool and [N]bool.
IsC4Type(t) ==
    \/ t.k = "bool" \/ t.k = "uint"
    \/ t.k \in {"slice", "array"} /\ t.elem.k = "bool"

\* C4: for v of type bool, uintN, []bool or [N]bool, Decode of exactly the
\* bytes Encode(v) wrote returns no error and leaves the target equal to v.
C4_RoundTrip ==
    \A p \in Procs :
        (Decoded(p) /\ proc[p].from = "Encode" /\ IsC4Type(proc[p].typ))
        => /\ proc[p].err = Nil
           /\ proc[p].target = proc[p].val

\* The maximum uint64 has gone through Encode and Decode: eight bytes of 255
\* were written, read back in little-endian order, and the target equals it.
C4_Witness ==
    \E p \in Procs :
        /\ Decoded(p) /\ proc[p].from = "Encode" /\ proc[p].err = Nil
        /\ proc[p].typ = TUint(8)
        /\ proc[p].val = [i \in 1..8 |-> 255]
        /\ proc[p].target = proc[p].val
        /\ proc[p].src.bytes = [i \in 1..8 |-> 255]

RECURSIVE IsPlainFixed(_)
\* bool, uintN, [N]T for such a T, and records of such fields.
IsPlainFixed(t) ==
    CASE t.k \in {"bool", "uint"} -> TRUE
      [] t.k = "array" -> IsPlainFixed(t.elem)
      [] t.k = "struct" -> \A i \in 1..Len(t.fields) : IsPlainFixed(t.fields[i].typ)
      [] OTHER -> FALSE

\* C5: for v of a fixed-size type getTypeSize(v) completes and is the number
\* of bytes Encode writes for v.
C5_SizeIsEncodedLength ==
    \A p \in Procs :
        (Encoded(p) /\ IsPlainFixed(proc[p].typ))
        => /\ getTypeSize(proc[p].typ, proc[p].val) >= 0
           /\ proc[p].err = Nil
           /\ getTypeSize(proc[p].typ, proc[p].val) = Len(proc[p].sink)

\* Decode on its own: a new Stream and an empty cache.
DecodeAlone(t, src) ==
    LET s == Reset(FreshStream, src).s
        d == StreamDecode(s.r, EmptyCache, t, Zero(t))
    IN  [err |-> d.err, val |-> d.val]

\* No encodeState and no Stream is held by two calls, or held and pooled.
PoolExclusive ==
    /\ \A p, q \in Procs :
          (p # q /\ proc[p].held # 0 /\ proc[q].held # 0 /\ proc[p].op = proc[q].op)
          => proc[p].held # proc[q].held
    /\ \A p \in Procs :
          proc[p].held # 0 =>
             proc[p].held \notin (IF proc[p].op = "Encode" THEN encodeStatePool
                                  ELSE streamPool)

\* Every cache entry is what newTypeEncoder or newTypeDecoder returns.
CacheConsistent ==
    /\ \A t \in DOMAIN encoderCache : encoderCache[t] = newTypeEncoder(t).f
    /\ \A t \in DOMAIN decoderCache : decoderCache[t] = newTypeDecoder(t).f

\* Every call that is over has the result it has on its own.
SameAsAlone ==
    \A p \in Procs :
        /\ Encoded(p) =>
              LET a == EncodeAlone(proc[p].typ, proc[p].val)
              IN  proc[p].sink = a.out /\ proc[p].err = a.err
        /\ Decoded(p) =>
              LET a == DecodeAlone(proc[p].typ, proc[p].src)
              IN  proc[p].target = a.val /\ proc[p].err = a.err

\* C6: for concurrent Encode and Decode calls, under every interleaving of
\* the pool and cache steps, each call's output (or decoded value) and error
\* are those of the same call run alone, no pooled encodeState or Stream is
\* held by two calls at once, and every cache entry is that of
\* newTypeEncoder or newTypeDecoder.
C6_ConcurrentAsAlone == SameAsAlone /\ PoolExclusive /\ CacheConsistent

\* C7: decoding a section that is the concatenation of n encodings of
\* fixed-size elements into a slice returns no error and yields those n
\* elements in order (for n = 0, the empty slice).
C7_FixedElementSlice ==
    \A p \in Procs :
        (Decoded(p) /\ proc[p].from = "elements")
        => /\ proc[p].err = Nil
           /\ proc[p].target = proc[p].val

\* C8: decoding what Encode wrote for a slice of n >= 1 variable-size
\* elements returns no error and yields n = O1/4 elements, the value that
\* was encoded.
C8_VariableElementSlice ==
    \A p \in Procs :
        ( /\ Decoded(p) /\ proc[p].from = "Encode"
          /\ proc[p].typ.k = "slice" /\ ~isFixedType(proc[p].typ.elem)
          /\ Len(proc[p].val) >= 1 )
        => /\ proc[p].err = Nil
           /\ Len(proc[p].target) * 4 = Uint32(SubSeq(proc[p].src.bytes, 1, 4))
           /\ proc[p].target = proc[p].val

RECURSIVE FixedSize(_)
\* The bytes a bool, a uintN or an array of them takes.
FixedSize(t) ==
    CASE t.k = "bool" -> 1
      [] t.k = "uint" -> t.w
      [] t.k = "array" -> t.n * FixedSize(t.elem)

\* C9: when a bool, a uintN or an element of a fixed array needs more bytes
\* than the section has left, Decode returns io.ErrUnexpectedEOF.
C9_ShortReadIsUnexpectedEOF ==
    \A p \in Procs :
        ( /\ Decoded(p) /\ proc[p].from = "bytes"
          /\ proc[p].src.kind = "bytes.Reader"
          /\ IsPlainFixed(proc[p].typ) /\ proc[p].typ.k # "struct"
          /\ Len(proc[p].src.bytes) < FixedSize(proc[p].typ) )
        => proc[p].err = ErrUnexpectedEOF

\* C10: when reading the source fails, Decode returns that error and writes
\* nothing to the target; it neither faults nor fills the target from what
\* an earlier call left in a pooled Stream.
C10_SourceErrorReturned ==
    \A p \in Procs :
        (Decoded(p) /\ proc[p].src.kind = "failing io.Reader")
        => /\ proc[p].err = ErrReader
           /\ proc[p].target = Zero(proc[p].typ)

\* The signed integer types of TestEncode.
IsSignedInt(t) == t \in {TInt8, TInt16, TInt32, TInt64}

\* The big.Int a top-level big.Int or *big.Int value holds.
BigOf(t, v) == IF t.k = "ptr" THEN v[1] ELSE v

IsBigIntCall(t, v) == t = TBigInt \/ (t = TPtr(TBigInt) /\ v # <<>>)

\* C11: Encode of a top-level int8, int16, int32 or int64, of a negative
\* big.Int, or of a big.Int whose byte length is outside 9..32 returns the
\* error of that case (type not serializable, negative, out of range) and
\* writes no byte to the writer.
C11_RejectedInputs ==
    \A p \in Procs :
        Encoded(p) =>
            LET t == proc[p].typ
                v == proc[p].val
            IN  /\ IsSignedInt(t)
                      => proc[p].err = ErrNotSerializable(t) /\ proc[p].sink = <<>>
                /\ (IsBigIntCall(t, v) /\ BigOf(t, v).neg)
                      => proc[p].err = ErrNegativeBigInt /\ proc[p].sink = <<>>
                /\ ( /\ IsBigIntCall(t, v) /\ ~BigOf(t, v).neg
                     /\ (Len(BigOf(t, v).mag) < 9 \/ Len(BigOf(t, v).mag) > 32) )
                      => proc[p].err = ErrBigIntRange /\ proc[p].sink = <<>>

\* Encode of a *big.Int of 33 bytes has returned the range error with
\* nothing written.
C11_Witness ==
    \E p \in Procs :
        /\ Encoded(p) /\ proc[p].typ = TPtr(TBigInt)
        /\ proc[p].val = <<[neg |-> FALSE, mag |-> BigMag(33)]>>
        /\ proc[p].err = ErrBigIntRange /\ proc[p].sink = <<>>

\* A big.Int that encodeBigInt accepts.
ValidBigInt(i) == ~i.neg /\ Len(i.mag) >= 9 /\ Len(i.mag) <= 32

\* uint128 / uint256: 16 bytes for 9..16 bytes of magnitude and 32 bytes for
\* 17..32, the least significant byte first, zeros after the last.
BigIntLayout(i) ==
    LET L == Len(i.mag)
    IN  [j \in 1..(IF L <= 16 THEN 16 ELSE 32) |->
            IF j <= L THEN i.mag[L - j + 1] ELSE 0]

\* A record whose fields are exported and of type bool, uintN or big.Int,
\* every big.Int in it valid.
IsFlatRecord(t, v) ==
    /\ t.k = "struct"
    /\ \A i \in 1..Len(t.fields) :
          /\ t.fields[i].exported
          /\ t.fields[i].typ.k \in {"bool", "uint", "bigint"}
          /\ t.fields[i].typ.k = "bigint" => ValidBigInt(v[i])

FieldLayout(t, x) == IF t.k = "bigint" THEN BigIntLayout(x) ELSE ElementBytes(t, x)

\* C12: a valid big.Int of L bytes is written as 16 bytes (9 <= L <= 16) or
\* 32 bytes (17 <= L <= 32), little-endian and zero-padded, and a record
\* whose fields are only bool, uintN and big.Int values is written as the
\* concatenation of its fields' encodings, the big.Int inline, no offset.
C12_BigIntIsFixedSize ==
    \A p \in Procs :
        Encoded(p) =>
            LET t == proc[p].typ
                v == proc[p].val
            IN  /\ (IsBigIntCall(t, v) /\ ValidBigInt(BigOf(t, v)))
                      => /\ proc[p].err = Nil
                         /\ proc[p].sink = BigIntLayout(BigOf(t, v))
                /\ IsFlatRecord(t, v)
                      => /\ proc[p].err = Nil
                         /\ proc[p].sink =
                               Flatten([i \in 1..Len(v) |->
                                           FieldLayout(t.fields[i].typ, v[i])])

IsEmptyState(es) == es.buffer = <<>> /\ es.auxBuffer = <<>>

\* C13: whatever earlier Encode calls left in the pooled encodeStates, the
\* state Encode took from the pool is empty from its reset to its first
\* write, and the bytes and the error of every Encode are those of the same
\* call on a newly allocated state with an empty pool (so the inner states
\* taken for the variable-size children were empty at their first write).
C13_PooledStatesStartEmpty ==
    \A p \in Procs :
        /\ proc[p].pc \in {"EncodeLoad", "EncodeStore", "EncodeRun"}
              => IsEmptyState(esMem[proc[p].held])
        /\ Encoded(p)
              => LET a == EncodeAlone(proc[p].typ, proc[p].val)
                 IN  proc[p].sink = a.out /\ proc[p].err = a.err

\* An Encode that wrote bytes has returned after it took from the pool a
\* state with bytes in both buffers (left by a call that panicked part-way
\* through an array) and handed its variable-size children a pooled state
\* with bytes in it.
C13_Witness ==
    \E p \in Procs :
        /\ Encoded(p) /\ proc[p].err = Nil /\ proc[p].sink # <<>>
        /\ proc[p].got.buffer # <<>> /\ proc[p].got.auxBuffer # <<>>
        /\ proc[p].gotInner.buffer # <<>>
        /\ proc[p].sink = EncodeAlone(proc[p].typ, proc[p].val).out

\* Decode of a slice of variable-size elements from bytes that were read.
DecodesSections(p) ==
    /\ Decoded(p) /\ proc[p].src.kind # "failing io.Reader"
    /\ proc[p].typ.k = "slice" /\ ~isFixedType(proc[p].typ.elem)

\* The first offset of the input is past the end of the input.
OffsetPastEnd(bs) == Len(bs) >= 4 /\ Uint32(SubSeq(bs, 1, 4)) > Len(bs)

\* C14: for every input, Decode of a slice of variable-size elements
\* returns (a value or an error), never faults on the range it asks
\* newSectionStream for (a negative length is a fault of make), and
\* returns an error when the offset read is greater than the section size.
C14_SectionsInRange ==
    \A p \in Procs :
        DecodesSections(p) =>
            /\ proc[p].pc # "hung"
            /\ proc[p].err # Panic
            /\ OffsetPastEnd(proc[p].src.bytes) => proc[p].err \notin {Nil, Panic}

====
